---- MODULE Spec2Model ----
(***************************************************************************)
(* LDrawTweaker (src/ldrawtweaker.py): a two-pass filter over an LDraw     *)
(* file.  Pass 1 (StatReaderProcessor) counts line types and accumulates   *)
(* the per-axis limits; pass 2 (TransformProcessor) re-reads the file,     *)
(* transforms the points of shape lines and writes every line out.         *)
(*                                                                         *)
(* Text is modelled as a sequence of pieces: a piece is a token or one     *)
(* whitespace character.  A token is an integer literal ("16"), a float    *)
(* literal ("16.0"), the literal "inf", or a word; numeric tokens carry    *)
(* their value.  Numbers are exact: the coordinates are integer-valued,    *)
(* the rounding of double arithmetic and of the digits str() keeps is not  *)
(* modelled, and -0.0 is identified with 0.0.  Python lists are sequences  *)
(* read through At (0-based).                                              *)
(***************************************************************************)
EXTENDS Integers, Sequences, FiniteSets, TLC

VARIABLES args, input, pc, pos, counter, limits, tcounter, fout, out

vars == <<args, input, pc, pos, counter, limits, tcounter, fout, out>>

(* ------------------------------ bounds -------------------------------- *)

\* Longest input file, in lines.
MaxLines == 2

\* Largest coordinate magnitude of the enumerated points.
CoordMax == 1

\* Longest rotation list of the enumerated configurations.
MaxRot == 1

(* --------------------------- text and tokens --------------------------- *)

Piece(t, v) == [t |-> t, v |-> v]

SP == Piece("sp", 0)
CR == Piece("cr", 0)
NL == Piece("nl", 0)

\* An integer literal, a float literal, the literal "inf", a word.
I(v) == Piece("int", v)
F(v) == Piece("float", v)
INF == Piece("inf", 0)
W(v) == Piece("word", v)

IsSpace(p) == p.t \in {"sp", "cr", "nl"}

\* Python indexing of a list.
At(s, k) == s[k + 1]

\* Mutant of rstrip: line.rstrip(), which strips trailing blanks as well.
RECURSIVE rstrip_blanks(_)
rstrip_blanks(line) ==
  IF line # <<>> /\ IsSpace(line[Len(line)])
    THEN rstrip_blanks(SubSeq(line, 1, Len(line) - 1))
    ELSE line

RECURSIVE rstrip(_)
rstrip(line) ==
  IF line # <<>> /\ line[Len(line)].t \in {"cr", "nl"}
    THEN rstrip(SubSeq(line, 1, Len(line) - 1))
    ELSE line

\* line.strip().split(): the tokens of a line.
split(line) == SelectSeq(line, LAMBDA p : ~IsSpace(p))

\* int(token): the literal's value, or a failure.
int_ok(tok) == tok.t = "int"

\* float(token) succeeds on integer and float literals and on "inf".
float_ok(tok) == tok.t \in {"int", "float", "inf"}

\* float_or_int(token) raises when float() does, and when int(value) does
\* (value infinite); otherwise it keeps the value as a float.
float_or_int_ok(tok) == float_ok(tok) /\ tok.t # "inf"

float_or_int(tok) == tok.v

\* str(float) and "{0}".format(int).
str(value) == F(value)

format_int(value) == I(value)

RECURSIVE join(_, _)
join(sep, items) ==
  IF items = <<>> THEN <<>>
  ELSE IF Len(items) = 1 THEN <<items[1]>>
  ELSE <<items[1], sep>> \o join(sep, Tail(items))

(* ----------------------------- rotations ------------------------------- *)

ROT_CW_X == << <<1, 0, 0>>, <<0, 0, 1>>, <<0, -1, 0>> >>

ROT_CW_Y == << <<0, 0, -1>>, <<0, 1, 0>>, <<1, 0, 0>> >>

ROT_CW_Z == << <<0, 1, 0>>, <<-1, 0, 0>>, <<0, 0, 1>> >>

\* Mutant of vector_rotate: the last term reads matrix[2][1] for matrix[2][2].
vector_rotate_index(point, matrix) ==
  << At(point, 0) * At(At(matrix, 0), 0) + At(point, 1) * At(At(matrix, 1), 0)
       + At(point, 2) * At(At(matrix, 2), 0),
     At(point, 0) * At(At(matrix, 0), 1) + At(point, 1) * At(At(matrix, 1), 1)
       + At(point, 2) * At(At(matrix, 2), 1),
     At(point, 0) * At(At(matrix, 0), 2) + At(point, 1) * At(At(matrix, 1), 2)
       + At(point, 2) * At(At(matrix, 2), 1) >>

vector_rotate(point, matrix) ==
  << At(point, 0) * At(At(matrix, 0), 0) + At(point, 1) * At(At(matrix, 1), 0)
       + At(point, 2) * At(At(matrix, 2), 0),
     At(point, 0) * At(At(matrix, 0), 1) + At(point, 1) * At(At(matrix, 1), 1)
       + At(point, 2) * At(At(matrix, 2), 1),
     At(point, 0) * At(At(matrix, 0), 2) + At(point, 1) * At(At(matrix, 1), 2)
       + At(point, 2) * At(At(matrix, 2), 2) >>

(* --------------------------- the line reader --------------------------- *)

\* DatFileProcessor.process on one line: the handler it calls.
classify(rawline) ==
  LET line == rstrip(rawline)
      lineitems == split(line)
  IN IF lineitems = <<>> \/ ~int_ok(lineitems[1])
       THEN [tag |-> "raw", counted |-> FALSE, content |-> line]
     ELSE LET linetype == lineitems[1].v
          IN IF linetype = 0
               THEN [tag |-> "comment", counted |-> TRUE, linetype |-> linetype,
                     content |-> line]
             ELSE IF linetype = 1
               THEN [tag |-> "include", counted |-> TRUE, linetype |-> linetype,
                     content |-> line]
             ELSE IF 2 <= linetype /\ linetype <= 5
               THEN IF Len(lineitems) < 2 \/ ~int_ok(lineitems[2])
                       \/ \E k \in 3..Len(lineitems) : ~float_or_int_ok(lineitems[k])
                      THEN [tag |-> "raw", counted |-> TRUE, linetype |-> linetype,
                            content |-> line]
                      ELSE [tag |-> "shape", counted |-> TRUE, linetype |-> linetype,
                            color |-> lineitems[2].v,
                            coordinates |-> [k \in 1..(Len(lineitems) - 2) |->
                                               float_or_int(lineitems[k + 2])]]
             ELSE [tag |-> "raw", counted |-> TRUE, linetype |-> linetype,
                   content |-> line]

\* self.counter[linetype] += 1 on a defaultdict(int).
count(cnt, rec) ==
  IF ~rec.counted THEN cnt
  ELSE IF rec.linetype \in DOMAIN cnt
    THEN [cnt EXCEPT ![rec.linetype] = @ + 1]
    ELSE cnt @@ (rec.linetype :> 1)

\* DatFileProcessor.process_shape: the text of a shape line.
shape_content(linetype, color, coordinates) ==
  <<format_int(linetype), SP, format_int(color), SP>>
    \o join(SP, [k \in 1..Len(coordinates) |-> str(coordinates[k])])

\* Mutant of write_output: an empty line is not written.
write_output_nonempty(o, line) == IF line = <<>> THEN o ELSE Append(o, line \o <<NL>>)

\* write_output: line + "\n" appended to the open output.
write_output(o, line) == Append(o, line \o <<NL>>)

(* ------------------------- StatReaderProcessor ------------------------- *)

\* sys.maxint, scaled down to the model's integers.  Floats reach far beyond
\* sys.maxint, so the enumerated coordinates include values beyond it (Huge).
maxint == 7

\* StatReaderProcessor.__init__: the limits before any coordinate is seen.
init_limits == << <<maxint, -maxint - 1>>, <<maxint, -maxint - 1>>,
                  <<maxint, -maxint - 1>> >>

min(a, b) == IF a <= b THEN a ELSE b

max(a, b) == IF a >= b THEN a ELSE b

\* The inner loop over coordinates[i:len(coordinates):3], from index k on.
RECURSIVE scan_axis(_, _, _)
scan_axis(pair, coordinates, k) ==
  IF k >= Len(coordinates) THEN pair
  ELSE scan_axis(<<min(At(coordinates, k), At(pair, 0)),
                   max(At(coordinates, k), At(pair, 1))>>,
                 coordinates, k + 3)

\* StatReaderProcessor.process_shape.
stat_process_shape(lim, coordinates) ==
  [i \in 1..3 |-> scan_axis(lim[i], coordinates, i - 1)]

(* ------------------------- TransformProcessor -------------------------- *)

\* Mutant of donorm: the upper limit is subtracted.
donorm_upper(point, lim) ==
  [i \in 1..Len(point) |-> point[i] - At(lim[i], 1)]

donorm(point, lim) ==
  [i \in 1..Len(point) |-> point[i] - At(lim[i], 0)]

doswap(point, permutation) ==
  [k \in 1..Len(permutation) |-> At(point, permutation[k])]

doflip(point, flip, lim) ==
  [i \in 1..Len(point) |->
     IF (i - 1) \in flip THEN At(lim[i], 0) + At(lim[i], 1) - point[i]
     ELSE point[i]]

\* for operation_matrix in self.args.rotate: point = vector_rotate(...)
RECURSIVE rotate_all(_, _)
rotate_all(point, matrices) ==
  IF matrices = <<>> THEN point
  ELSE rotate_all(vector_rotate(point, Head(matrices)), Tail(matrices))

\* Mutant of transform_point: normalize runs before flip.
transform_point_norm_first(point, a, lim) ==
  LET p1 == IF a.norm THEN donorm(point, lim) ELSE point
      p2 == IF a.flip # {} THEN doflip(p1, a.flip, lim) ELSE p1
      p3 == IF a.swap # <<>> THEN doswap(p2, a.swap) ELSE p2
      p4 == IF a.rotate # <<>> THEN rotate_all(p3, a.rotate) ELSE p3
  IN p4

\* Mutant of transform_point: normalize runs last, after the rotations.
transform_point_norm_last(point, a, lim) ==
  LET p1 == IF a.flip # {} THEN doflip(point, a.flip, lim) ELSE point
      p2 == IF a.swap # <<>> THEN doswap(p1, a.swap) ELSE p1
      p3 == IF a.rotate # <<>> THEN rotate_all(p2, a.rotate) ELSE p2
      p4 == IF a.norm THEN donorm(p3, lim) ELSE p3
  IN p4

\* The body of the loop over the points of a shape (lines 180-190).
transform_point(point, a, lim) ==
  LET p1 == IF a.flip # {} THEN doflip(point, a.flip, lim) ELSE point
      p2 == IF a.norm THEN donorm(p1, lim) ELSE p1
      p3 == IF a.swap # <<>> THEN doswap(p2, a.swap) ELSE p2
      p4 == IF a.rotate # <<>> THEN rotate_all(p3, a.rotate) ELSE p3
  IN p4

\* points[::-1]
reversed(points) == [k \in 1..Len(points) |-> points[Len(points) + 1 - k]]

\* [value for point in points for value in point]
RECURSIVE flatten(_)
flatten(points) ==
  IF points = <<>> THEN <<>> ELSE Head(points) \o flatten(Tail(points))

\* The points loop: range(len(coordinates)/3), each point a slice of 3.
shape_points(coordinates, a, lim) ==
  [i \in 1..(Len(coordinates) \div 3) |->
     transform_point(SubSeq(coordinates, (i - 1) * 3 + 1, (i - 1) * 3 + 3), a, lim)]

\* Mutant of transform_shape: the flat coordinate list is reversed.
transform_shape_flat(coordinates, a, lim) ==
  LET flat == flatten(shape_points(coordinates, a, lim))
  IN IF a.flipface THEN reversed(flat) ELSE flat

\* TransformProcessor.process_shape: the coordinates handed to the writer.
transform_shape(coordinates, a, lim) ==
  LET points == shape_points(coordinates, a, lim)
  IN flatten(IF a.flipface THEN reversed(points) ELSE points)

\* The text pass 2 writes for one classified line.
emit(rec, a, lim) ==
  IF rec.tag = "shape"
    THEN shape_content(rec.linetype, rec.color,
                       transform_shape(rec.coordinates, a, lim))
    ELSE rec.content

(* ------------------------------ the run -------------------------------- *)

\* Mutant of out_given: pass 2 runs whatever --out is.
out_always(a) == TRUE

\* if args.out: an absent --out and an empty one are both false.
out_given(a) == a.out # ""

\* StatReaderProcessor.process, one line of the loop.
Pass1Line ==
  /\ pc = "pass1"
  /\ pos <= Len(input)
  /\ LET rec == classify(input[pos])
     IN /\ counter' = count(counter, rec)
        /\ limits' = IF rec.tag = "shape"
                       THEN stat_process_shape(limits, rec.coordinates)
                       ELSE limits
  /\ pos' = pos + 1
  /\ UNCHANGED <<args, input, pc, tcounter, fout, out>>

\* main: pass 1 has returned; pass 2 is built and its output opened when
\* an output path is given.
Pass1End ==
  /\ pc = "pass1"
  /\ pos > Len(input)
  /\ IF out_given(args)
       THEN /\ pc' = "pass2"
            /\ pos' = 1
            /\ fout' = "open"
       ELSE /\ pc' = "done"
            /\ UNCHANGED <<pos, fout>>
  /\ UNCHANGED <<args, input, counter, limits, tcounter, out>>

\* TransformProcessor.process, one line of the loop.
Pass2Line ==
  /\ pc = "pass2"
  /\ pos <= Len(input)
  /\ LET rec == classify(input[pos])
     IN /\ tcounter' = count(tcounter, rec)
        /\ out' = write_output(out, emit(rec, args, limits))
  /\ pos' = pos + 1
  /\ UNCHANGED <<args, input, pc, counter, limits, fout>>

\* The with block of TransformProcessor.process ends: the output is closed.
Pass2End ==
  /\ pc = "pass2"
  /\ pos > Len(input)
  /\ fout' = "closed"
  /\ pc' = "done"
  /\ UNCHANGED <<args, input, pos, counter, limits, tcounter, out>>

Next == Pass1Line \/ Pass1End \/ Pass2Line \/ Pass2End

(* ----------------------- the enumerated inputs -------------------------- *)

Axes == 0..2

Coord == (-CoordMax)..CoordMax

\* A coordinate beyond sys.maxint (such as 1e19) and one below -sys.maxint-1.
Huge == maxint + 1

Points == {<<x, y, z>> : x \in Coord, y \in Coord, z \in Coord}

\* parse_swap: the permutations of the three axes.
Perms == {p \in [1..3 -> Axes] : \A i \in 1..3, j \in 1..3 : p[i] = p[j] => i = j}

\* parse_rotate: one matrix per letter.
Rots == {ROT_CW_X, ROT_CW_Y, ROT_CW_Z}

RotLists(n) == UNION {[1..k -> Rots] : k \in 0..n}

\* The parsed arguments.  An option that was not given (None) and an empty
\* one are both false wherever the program reads them: {}, <<>> and "" stand
\* for both.
Config(flip, norm, swap, rotate, flipface, o) ==
  [flip |-> flip, norm |-> norm, swap |-> swap, rotate |-> rotate,
   flipface |-> flipface, out |-> o]

\* The text of a shape line with float-literal coordinates.
ShapeLine(kind, color, coords, eol) ==
  <<I(kind), SP, I(color)>>
    \o flatten([k \in 1..Len(coords) |-> <<SP, F(coords[k])>>]) \o eol

\* Lines no shape is read from, without their line end.
RawBodies ==
  { <<>>,
    <<W(0)>>,
    <<SP, I(0), SP, SP, W(0), SP>>,
    <<I(1), SP, I(16), SP, W(1)>>,
    <<I(6), SP, I(16), SP, F(0), SP, F(0), SP, F(0)>>,
    <<F(2), SP, I(16), SP, F(0), SP, F(0), SP, F(0)>>,
    <<I(2)>>,
    <<I(3), SP, F(16), SP, F(0), SP, F(0), SP, F(0)>>,
    <<I(2), SP, I(5), SP, W(0), SP, I(1), SP, I(2)>>,
    <<I(4), SP, I(16), SP, INF, SP, F(0), SP, F(0)>> }

RawLines ==
  {b \o <<NL>> : b \in RawBodies}
    \cup {<<I(0), SP, W(0), CR, NL>>, <<I(0), SP, W(0), CR, CR, NL>>}

\* The coordinate lists of the enumerated shape lines: none, too few, one
\* more than a point, two points and one more, and points on a diagonal,
\* among them one beyond sys.maxint and one below -sys.maxint-1.
ShapeCoords ==
  {<<>>, <<1, -1>>, <<0, 1, -1, 1>>, <<1, 0, -1, 0, -1, 1, -1>>}
    \cup {<<x, 0, -x>> : x \in Coord \cup {Huge, -Huge - 1}}

ShapeLines ==
  {ShapeLine(2 + (Len(c) % 4), 16, c, <<NL>>) : c \in ShapeCoords}
    \cup {<<I(5), SP, I(16), SP, I(1), SP, F(0), SP, I(-1), CR, NL>>}

\* The last line of a file may lack its newline.
Unended == {<<I(0), SP, W(0)>>, <<W(0), CR>>, ShapeLine(3, 16, <<1, 0, -1>>, <<>>)}

Files(lines) ==
  {<<>>} \cup UNION {{f \in [1..n -> lines \cup Unended] :
                        \A k \in 1..(n - 1) : f[k] \in lines} : n \in 1..MaxLines}

\* Files of lines that are passed through, with a shape line or two among
\* them, and files of shape lines, with a raw line among them.
MixedFiles ==
  Files(RawLines \cup {ShapeLine(3, 16, <<1, 0, -1>>, <<NL>>),
                       ShapeLine(2, 16, <<0, 1, -1, 1>>, <<NL>>)})
    \cup Files(ShapeLines \cup {<<I(2), SP, I(5), SP, W(0), SP, I(1), SP, I(2), NL>>})

MixedConfigs ==
  { Config({}, FALSE, <<>>, <<>>, FALSE, ""),
    Config({}, FALSE, <<>>, <<>>, FALSE, "out.dat"),
    Config({1}, TRUE, <<1, 0, 2>>, <<>>, TRUE, "out.dat"),
    Config({0, 2}, TRUE, <<2, 0, 1>>, <<ROT_CW_Z>>, TRUE, "out.dat") }

\* One shape of three points, the first ranging over all points.
PointFiles ==
  {<<ShapeLine(4, 16, p \o <<CoordMax, 0, -CoordMax>> \o <<0, -CoordMax, 0>>, <<NL>>)>>
     : p \in Points}

PointConfigs ==
  {Config(flip, norm, swap, <<>>, FALSE, "out.dat") :
     flip \in SUBSET Axes, norm \in BOOLEAN, swap \in {<<>>} \cup Perms}
    \cup {Config(flip, norm, swap, rot, FALSE, "out.dat") :
            flip \in {{}, {0, 2}}, norm \in BOOLEAN,
            swap \in {<<>>, <<1, 2, 0>>, <<0, 2, 1>>}, rot \in RotLists(MaxRot)}
    \cup {Config(flip, norm, swap, rot, TRUE, "out.dat") :
            flip \in {{}, {1}}, norm \in BOOLEAN,
            swap \in {<<>>, <<1, 2, 0>>, <<2, 1, 0>>}, rot \in {<<>>, <<ROT_CW_X>>}}
    \cup {Config(flip, norm, swap, <<m, m, m, m>>, FALSE, "out.dat") :
            flip \in {{}, {1}}, norm \in BOOLEAN, swap \in {<<>>, <<1, 2, 0>>},
            m \in Rots}

Init ==
  /\ \/ /\ input \in MixedFiles
        /\ args \in MixedConfigs
     \/ /\ input \in PointFiles
        /\ args \in PointConfigs
  /\ pc = "pass1"
  /\ pos = 1
  /\ counter = <<>>
  /\ limits = init_limits
  /\ tcounter = <<>>
  /\ fout = "unopened"
  /\ out = <<>>

Spec == Init /\ [][Next]_vars

(* ------------------- reading the input and the output ------------------ *)
(* The claims read the file texts on their own, without the line reader.   *)

Tokens(text) == SelectSeq(text, LAMBDA p : p.t \in {"int", "float", "inf", "word"})

IsNumber(tok) == tok.t \in {"int", "float"}

\* A line with kind 2..5, an integer color and only numeric coordinates.
IsShapeText(text) ==
  LET t == Tokens(text)
  IN /\ Len(t) >= 2
     /\ t[1].t = "int" /\ t[1].v \in 2..5
     /\ t[2].t = "int"
     /\ \A k \in 3..Len(t) : IsNumber(t[k])

\* The values of the tokens after kind and color.
CoordsOf(text) == LET t == Tokens(text) IN [k \in 1..(Len(t) - 2) |-> t[k + 2].v]

KindOf(text) == Tokens(text)[1].v

ColorOf(text) == Tokens(text)[2].v

\* The j-th point (j = 1, 2, ...) of a coordinate list.
PointOf(c, j) == <<c[3 * j - 2], c[3 * j - 1], c[3 * j]>>

NPoints(c) == Len(c) \div 3

\* The text without its terminating newline ("\n" or "\r\n").
Chomp(text) ==
  LET n == Len(text)
  IN IF n >= 2 /\ text[n] = NL /\ text[n - 1] = CR THEN SubSeq(text, 1, n - 2)
     ELSE IF n >= 1 /\ text[n] = NL THEN SubSeq(text, 1, n - 1)
     ELSE text

\* The text without any of its trailing carriage returns and newlines.
ChompAll(text) ==
  LET keep == {n \in 0..Len(text) :
                 /\ n > 0 => text[n] \notin {CR, NL}
                 /\ \A k \in (n + 1)..Len(text) : text[k] \in {CR, NL}}
  IN SubSeq(text, 1, CHOOSE n \in keep : TRUE)

\* The lines pass 2 has written so far, by input position.
Written == 1..Len(out)

BoxMin(i) == limits[i + 1][1]

BoxMax(i) == limits[i + 1][2]

\* The input point the j-th emitted point of an n-point shape comes from.
SourceIndex(n, j) == IF args.flipface THEN n + 1 - j ELSE j

(* ------------------------------- claims -------------------------------- *)

\* C2, as stated: every line that is not read as a shape is written as its
\* original text with only the terminating newline removed.
C2_PassThroughChomp ==
  \A k \in Written :
    ~IsShapeText(input[k]) => out[k] = Chomp(input[k]) \o <<NL>>

\* C2, amended: every line that is not read as a shape is written as its
\* original text with all its trailing carriage returns and newlines removed,
\* under every configuration, and the run goes on to the next line: when it
\* ends with an output, every input line has been written.
C2_PassThrough ==
  /\ \A k \in Written :
       ~IsShapeText(input[k]) => out[k] = ChompAll(input[k]) \o <<NL>>
  /\ (pc = "done" /\ fout = "closed") => Len(out) = Len(input)

\* C2: a malformed shape line (kind 2..5) with spacing of its own has been
\* passed through, and a line after it has been written too.
C2_Witness ==
  \E k \in Written :
    /\ k < Len(out)
    /\ ~IsShapeText(input[k])
    /\ Tokens(input[k]) # <<>> /\ Tokens(input[k])[1] \in {I(2), I(3), I(4), I(5)}
    /\ \E j \in Written : ~IsShapeText(input[j]) /\ input[j][1] = SP
    /\ (args.norm /\ args.flipface)

\* C3, as stated: a shape line whose number of coordinates is not a multiple
\* of 3 is written as its original text.
C3_OddCountIsRaw ==
  \A k \in Written :
    (IsShapeText(input[k]) /\ Len(CoordsOf(input[k])) % 3 # 0)
      => out[k] = ChompAll(input[k]) \o <<NL>>

\* The coordinates of the input at the positions of axis i (positions
\* congruent to i modulo 3) of all its shape lines.
AxisCoords(i) ==
  UNION {{CoordsOf(input[k])[n] : n \in {m \in 1..Len(CoordsOf(input[k])) : (m - 1) % 3 = i}}
           : k \in {l \in 1..Len(input) : IsShapeText(input[l])}}

\* C5, as stated: after pass 1 the limits of each axis are the minimum and
\* the maximum of the coordinates at the positions of that axis in all shape
\* lines, the sentinel pair when there is none, and min <= max on every axis
\* with a coordinate.
C5_LimitsAreMinMax ==
  pc \in {"pass2", "done"} =>
    \A i \in Axes :
      IF AxisCoords(i) = {}
        THEN BoxMin(i) = maxint /\ BoxMax(i) = -maxint - 1
        ELSE /\ \A c \in AxisCoords(i) : BoxMin(i) <= c /\ c <= BoxMax(i)
             /\ BoxMin(i) \in AxisCoords(i)
             /\ BoxMax(i) \in AxisCoords(i)
             /\ BoxMin(i) <= BoxMax(i)

\* The limits pass 1 holds after the given lines, from the limits lim.
RECURSIVE Pass1Limits(_, _)
Pass1Limits(lines, lim) ==
  IF lines = <<>> THEN lim
  ELSE Pass1Limits(Tail(lines),
                   IF IsShapeText(Head(lines))
                     THEN stat_process_shape(lim, CoordsOf(Head(lines)))
                     ELSE lim)

\* C6: pass 2 runs only after pass 1 has read the whole input and only with
\* an output path; nothing is written during pass 1; and the limits pass 2
\* reads are, at each of its steps, the limits pass 1 ended with.
C6_TwoPasses ==
  /\ pc = "pass1" => (fout = "unopened" /\ out = <<>>)
  /\ pc = "pass1" => limits = Pass1Limits(SubSeq(input, 1, pos - 1), init_limits)
  /\ (pc = "pass2" \/ fout # "unopened") =>
       /\ args.out # ""
       /\ limits = Pass1Limits(input, init_limits)

\* C6: pass 2 has transformed and written a shape, flip and normalize
\* included, of an input whose limits pass 1 moved.
C6_Witness ==
  /\ pc = "pass2"
  /\ limits # init_limits
  /\ args.norm /\ args.flip # {} /\ args.flipface
  /\ \E k \in Written : IsShapeText(input[k]) /\ NPoints(CoordsOf(input[k])) > 0

\* C10: with an output path, after n lines of pass 2 the output holds n
\* lines, each ended by its one newline, and the k-th is what the k-th input
\* line alone yields; at the end every input line has its output line.
C10_OneLinePerLine ==
  /\ pc = "pass2" => Len(out) = pos - 1
  /\ (pc = "done" /\ args.out # "") => Len(out) = Len(input)
  /\ \A k \in Written :
       /\ out[k] = emit(classify(input[k]), args, limits) \o <<NL>>
       /\ \A n \in 1..(Len(out[k]) - 1) : out[k][n] # NL

\* C10: a file of an empty line and a shape line has been written out.
C10_Witness ==
  /\ pc = "done"
  /\ Len(out) = 2
  /\ \E k \in Written : Tokens(input[k]) = <<>>
  /\ \E k \in Written : IsShapeText(input[k])

\* The values written on the k-th output line after kind and color.
OutCoords(k) == CoordsOf(out[k])

\* The four steps as the specification states them, each the identity when
\* its option is off.
C1_Flip(p) ==
  [i \in 1..3 |-> IF (i - 1) \in args.flip
                    THEN BoxMin(i - 1) + BoxMax(i - 1) - p[i] ELSE p[i]]

C1_Normalize(p) ==
  [i \in 1..3 |-> IF args.norm THEN p[i] - BoxMin(i - 1) ELSE p[i]]

C1_Swap(p) ==
  [k \in 1..3 |-> IF args.swap = <<>> THEN p[k] ELSE p[args.swap[k] + 1]]

\* p'[j] = sum over i of p[i] * M[i][j]
C1_Product(p, M) ==
  [j \in 1..3 |-> p[1] * M[1][j] + p[2] * M[2][j] + p[3] * M[3][j]]

\* The point after the first n rotations of the list.
RECURSIVE C1_Rotated(_, _)
C1_Rotated(p, n) ==
  IF n = 0 THEN p ELSE C1_Product(C1_Rotated(p, n - 1), args.rotate[n])

C1_Expected(p) ==
  C1_Rotated(C1_Swap(C1_Normalize(C1_Flip(p))), Len(args.rotate))

C4_FlipFace ==
  \A k \in Written :
    IsShapeText(input[k]) =>
      LET c == CoordsOf(input[k])
          n == NPoints(c)
          o == OutCoords(k)
      IN /\ KindOf(out[k]) = KindOf(input[k])
         /\ ColorOf(out[k]) = ColorOf(input[k])
         /\ Len(o) = 3 * n
         /\ \A j \in 1..n :
              PointOf(o, j)
                = transform_point(PointOf(c, IF args.flipface THEN n + 1 - j ELSE j),
                                  [args EXCEPT !.flipface = FALSE], limits)

\* C4: a shape of three distinct points has been written reversed, after a
\* transform of its points.
C4_Witness ==
  \E k \in Written :
    /\ args.flipface /\ args.norm /\ args.swap # <<>>
    /\ IsShapeText(input[k]) /\ NPoints(CoordsOf(input[k])) = 3
    /\ PointOf(OutCoords(k), 1) # PointOf(OutCoords(k), 3)
    /\ PointOf(OutCoords(k), 1) # PointOf(OutCoords(k), 2)

\* The axis the component k of an emitted point comes from.
C7_SourceAxis(k) == IF args.swap = <<>> THEN k ELSE args.swap[k + 1]

C8_RotationLeavesRange ==
  (args.norm /\ args.flip = {} /\ args.swap = <<>> /\ args.rotate = <<ROT_CW_Z>>) =>
    \A k \in Written :
      IsShapeText(input[k]) =>
        LET c == CoordsOf(input[k])
            n == NPoints(c)
        IN \A j \in 1..n :
             PointOf(c, SourceIndex(n, j))[2] > BoxMin(1)
               => PointOf(OutCoords(k), j)[1] < 0

\* C8: a negative coordinate has been written under normalize and a rotation.
C8_Witness ==
  /\ args.norm /\ args.flip = {} /\ args.swap = <<>> /\ args.rotate = <<ROT_CW_Z>>
  /\ \E k \in Written :
       /\ IsShapeText(input[k])
       /\ \E n \in 1..Len(OutCoords(k)) : OutCoords(k)[n] < 0

\* A rotate list of four copies of one matrix, and vector_rotate applied
\* four times.
C9_Four(m) == <<m, m, m, m>>

C9_FourTimes(p, m) ==
  LET p1 == vector_rotate(p, m)
      p2 == vector_rotate(p1, m)
      p3 == vector_rotate(p2, m)
  IN vector_rotate(p3, m)

\* C9: four applications of vector_rotate with one of the three matrices
\* return the point, and a rotate list of four copies of one matrix leaves
\* every output line what it is without rotation.
C9_FourRotations ==
  \A m \in Rots :
    args.rotate = C9_Four(m) =>
      \A k \in Written :
        /\ out[k] = emit(classify(input[k]), [args EXCEPT !.rotate = <<>>], limits)
                      \o <<NL>>
        /\ IsShapeText(input[k]) =>
             LET c == CoordsOf(input[k])
             IN \A j \in 1..NPoints(c) :
                  C9_FourTimes(PointOf(c, j), m) = PointOf(c, j)

\* C9: a shape with a point off every axis has been written under four
\* copies of one rotation, normalize and swap enabled.
C9_Witness ==
  /\ \E m \in Rots : args.rotate = C9_Four(m)
  /\ args.norm /\ args.swap # <<>>
  /\ \E k \in Written :
       /\ IsShapeText(input[k])
       /\ \E j \in 1..NPoints(OutCoords(k)) :
            \A i \in 1..3 : PointOf(OutCoords(k), j)[i] # 0

====
